---- MODULE Spec2Model ----
(***************************************************************************)
(* Model of scripts/turtlesim_controller.py: the TurtlesimController node  *)
(* that turns a stream of turtlesim Pose messages into Twist commands so   *)
(* that the turtle traces a regular polygon.                               *)
(*                                                                         *)
(* Numbers.  Lengths are in units of 0.5 (length_of_side 1.0 is 2),        *)
(* angles in degrees (math.pi is 180), speeds in units of 0.1.  All the    *)
(* values the model draws are integers in these units, so every sum,       *)
(* difference and comparison of the code is exact here.                    *)
(***************************************************************************)
EXTENDS Integers, Sequences, FiniteSets

VARIABLES
    param,           \* self._param: num_of_sides, length_of_side, turn_direction_th
    turtle,          \* self._turtle: pose (None before the first message), velocity, yawrate
    prev_turn_pose,  \* self._prev_turn_pose: Optional[Pose]
    turn_count,      \* self._turn_count
    cmd_vel_pub,     \* the Twist messages handed to self._cmd_vel_pub by the latest callback
    last_branch,     \* history: the branch of _set_cmd_vel the latest callback took
                     \* ("raised" if an exception left it)
    distance,        \* history: the local `distance` of the latest callback (None if not computed)
    segments,        \* history: how many times line 63 captured a reference pose
    callbacks,       \* per callback thread: the line it is at and its locals
                     \* (every thread is idle while callbacks run to completion)
    overlapped       \* history: some statement ran while another callback was under way

vars == <<param, turtle, prev_turn_pose, turn_count, cmd_vel_pub, last_branch,
          distance, segments, callbacks, overlapped>>

----------------------------------------------------------------------------
(* Bounds of the model and the values it draws *)

\* x ranges over 0..MaxX
MaxX == 2

\* y ranges over two rows a side length apart: every position has a position
\* at least length_of_side away, and hypot sees both coordinates
Ys == {0, 2}

\* math.pi, in degrees (the unit of every angle here)
Pi == 180

\* headings a Pose message may carry: the target directions of the polygons
\* below, a heading one degree off a target, and one just above -pi
Thetas == {-179, -120, -90, 0, 90, 91, 120, 180}

\* ~num_of_sides as the parameter server may hold it (default 3); the code
\* accepts any integer
SidesValues == {-1, 0, 2, 3, 4}

\* ~length_of_side (default 1.0 is 2 half-units) and a non-positive value
LengthValues == {0, 2}

\* ~turn_direction_th in degrees, and a non-positive value
ThresholdValues == {0, 1}

\* the side counts the target direction is computed for on its own: those
\* from 3 to MaxSidesChecked that divide the 360 degrees of 2*pi, where
\* degrees are exact
MaxSidesChecked == 12
CheckedSides == {n \in 3..MaxSidesChecked : (2 * Pi) % n = 0}

\* ~velocity default 0.5 and ~yawrate default 0.3, in tenths
DefaultVelocity == 5
DefaultYawrate == 3

----------------------------------------------------------------------------
(* Values *)

\* Optional[T]: None is the empty sequence, a value p is <<p>>
None == <<>>
Some(p) == <<p>>
Get(o) == o[1]

\* turtlesim.msg.Pose, the fields the node reads
Pose == [x : 0..MaxX, y : Ys, theta : Thetas]

\* geometry_msgs.msg.Twist, the fields the node writes (linear.x, angular.z);
\* Twist() is all zero
Twist(l, a) == [linear |-> l, angular |-> a]
ZeroTwist == Twist(0, 0)

\* the Param dataclass: the default triangle under every length and
\* threshold drawn, the other side counts under the positive ones
Param ==
    {p \in [num_of_sides : SidesValues,
            length_of_side : LengthValues,
            turn_direction_th : ThresholdValues] :
        \/ p.num_of_sides = 3
        \/ p.length_of_side > 0 /\ p.turn_direction_th > 0}

Abs(v) == IF v < 0 THEN -v ELSE v

\* floor of the square root
RECURSIVE ISqrtFrom(_, _)
ISqrtFrom(v, r) == IF (r + 1) * (r + 1) > v THEN r ELSE ISqrtFrom(v, r + 1)
ISqrt(v) == ISqrtFrom(v, 0)

----------------------------------------------------------------------------
(* The helpers of TurtlesimController *)

\* _can_move
can_move_inclusive == turn_count <= param.num_of_sides
can_move == turn_count < param.num_of_sides

\* _calc_distance: math.hypot of the coordinate differences.  The model keeps
\* its integer part; the only use is the comparison with the integer
\* length_of_side, and floor(d) < L iff d < L for an integer L.
calc_distance_x_only(pose1, pose2) == Abs(pose1.x - pose2.x)
calc_distance(pose1, pose2) ==
    ISqrt((pose1.x - pose2.x) * (pose1.x - pose2.x)
          + (pose1.y - pose2.y) * (pose1.y - pose2.y))

\* _get_cmd_vel_to_go_straight
get_cmd_vel_to_go_straight == Twist(turtle.velocity, 0)

\* _get_cmd_vel_to_turn_in_place
get_cmd_vel_to_turn_while_moving == Twist(turtle.velocity, turtle.yawrate)
get_cmd_vel_to_turn_in_place == Twist(0, turtle.yawrate)

\* the while loop of _calc_target_direction: subtract 2*pi while above pi
RECURSIVE wrap_target_direction_at_pi(_)
wrap_target_direction_at_pi(target_direction) ==
    IF Pi <= target_direction
    THEN wrap_target_direction_at_pi(target_direction - 2 * Pi)
    ELSE target_direction
RECURSIVE wrap_target_direction(_)
wrap_target_direction(target_direction) ==
    IF Pi < target_direction
    THEN wrap_target_direction(target_direction - 2 * Pi)
    ELSE target_direction

\* lines 105-110 on the numbers they read: 2*pi/num_of_sides times
\* (count + 1), wrapped.  The division is exact in degrees for the side counts
\* that divide 360, the only ones it is used with.
target_direction(num_of_sides, count) ==
    LET target_direction_base == (2 * Pi) \div num_of_sides
    IN  wrap_target_direction(target_direction_base * (count + 1))

\* _calc_target_direction: both arguments are ignored, the direction comes
\* from self._param.num_of_sides and self._turn_count
calc_target_direction_of_argument(pose, turn_count_arg) ==
    target_direction(param.num_of_sides, turn_count_arg)
calc_target_direction(pose, turn_count_arg) ==
    target_direction(param.num_of_sides, turn_count)

\* line 105 raises ZeroDivisionError when num_of_sides is 0
division_raises == param.num_of_sides = 0

\* _can_turn, read with self._turtle.pose = pose
can_turn_any_corner(pose) ==
    param.turn_direction_th < Abs(calc_target_direction(pose, turn_count) - pose.theta)
can_turn_inclusive(pose) ==
    /\ param.turn_direction_th <= Abs(calc_target_direction(pose, turn_count) - pose.theta)
    /\ turn_count < param.num_of_sides - 1
can_turn(pose) ==
    /\ param.turn_direction_th < Abs(calc_target_direction(pose, turn_count) - pose.theta)
    /\ turn_count < param.num_of_sides - 1

\* lines 61-63: the reference pose the distance is measured from
reference_pose_default(pose) ==
    IF prev_turn_pose = None THEN Some([x |-> 0, y |-> 0, theta |-> 0]) ELSE prev_turn_pose
reference_pose_not_captured(pose) == prev_turn_pose
reference_pose(pose) ==
    IF prev_turn_pose = None THEN Some(pose) ELSE prev_turn_pose

\* line 67: the go-straight test
side_not_reached_inclusive(d) == d <= param.length_of_side
side_not_reached(d) == d < param.length_of_side

\* line 76
next_turn_count_skip == turn_count + 2
next_turn_count == turn_count + 1

\* self._cmd_vel_pub.publish(cmd_vel), on the messages q already published by
\* this callback
publish_nonzero(q, cmd_vel) == IF cmd_vel = ZeroTwist THEN q ELSE Append(q, cmd_vel)
publish(q, cmd_vel) == Append(q, cmd_vel)

----------------------------------------------------------------------------
(* __init__ *)

\* the threads that may run _pose_callback, one per connection of the
\* subscriber, and a thread outside the callback
Threads == {1, 2}
IdleThread == [pc |-> "idle", cmd_vel |-> ZeroTwist, distance |-> None]

Init ==
    /\ param \in Param
    /\ callbacks = [t \in Threads |-> IdleThread]
    /\ overlapped = FALSE
    /\ turtle = [pose |-> None, velocity |-> DefaultVelocity, yawrate |-> DefaultYawrate]
    /\ prev_turn_pose = None
    /\ turn_count = 0
    /\ cmd_vel_pub = <<>>
    /\ last_branch = "init"
    /\ distance = None
    /\ segments = 0

\* an exception leaves _set_cmd_vel: nothing is published, and what was
\* assigned before the raising line stays assigned
raised(ref, d) ==
    /\ cmd_vel_pub' = <<>>
    /\ last_branch' = "raised"
    /\ distance' = d
    /\ prev_turn_pose' = ref
    /\ UNCHANGED turn_count

\* _set_cmd_vel, run with self._turtle.pose = pose
set_cmd_vel(pose) ==
    IF ~can_move
    THEN \* lines 57-59
         /\ cmd_vel_pub' = publish(<<>>, ZeroTwist)
         /\ last_branch' = "terminal"
         /\ distance' = None
         /\ UNCHANGED <<prev_turn_pose, turn_count, segments>>
    ELSE LET ref == reference_pose(pose)
         IN  /\ segments' = IF prev_turn_pose = None /\ ref # None
                            THEN segments + 1 ELSE segments
             /\ IF ref = None
                THEN \* line 64 reads pose1.x of None
                     raised(ref, None)
                ELSE
                LET d == calc_distance(Get(ref), pose)
                IN  IF side_not_reached(d)
                    THEN \* lines 67-69
                         /\ cmd_vel_pub' = publish(<<>>, get_cmd_vel_to_go_straight)
                         /\ last_branch' = "straight"
                         /\ distance' = Some(d)
                         /\ prev_turn_pose' = ref
                         /\ UNCHANGED turn_count
                    ELSE IF division_raises
                    THEN \* line 71 calls _can_turn, which divides first
                         raised(ref, Some(d))
                    ELSE IF can_turn(pose)
                    THEN \* lines 71-74
                         /\ cmd_vel_pub' = publish(<<>>, get_cmd_vel_to_turn_in_place)
                         /\ last_branch' = "turn"
                         /\ distance' = Some(d)
                         /\ prev_turn_pose' = ref
                         /\ UNCHANGED turn_count
                    ELSE \* lines 75-77
                         /\ cmd_vel_pub' = publish(<<>>, ZeroTwist)
                         /\ last_branch' = "corner"
                         /\ distance' = Some(d)
                         /\ turn_count' = next_turn_count
                         /\ prev_turn_pose' = None

\* _pose_callback
pose_callback(msg) ==
    /\ turtle' = [turtle EXCEPT !.pose = Some(msg)]
    /\ set_cmd_vel(msg)
    /\ UNCHANGED <<param, callbacks, overlapped>>

\* rospy.spin(): one callback per message of /turtle1/pose, run to completion
Next == \E msg \in Pose : pose_callback(msg)

Spec == Init /\ [][Next]_vars

----------------------------------------------------------------------------
(* The pose source of a turtle that obeys the commands *)

\* the first message: the turtle is wherever it was spawned
FirstPose ==
    /\ turtle.pose = None
    /\ \E msg \in Pose : pose_callback(msg)

\* after a go-straight command the turtle keeps its heading; its position is
\* the old one or any other
StraightMove ==
    /\ last_branch = "straight"
    /\ \E msg \in Pose :
        /\ msg.theta = Get(turtle.pose).theta
        /\ pose_callback(msg)

\* after a turn-in-place command the turtle keeps its position; its heading
\* is the old one or any other
TurnMove ==
    /\ last_branch = "turn"
    /\ \E msg \in Pose :
        /\ msg.x = Get(turtle.pose).x
        /\ msg.y = Get(turtle.pose).y
        /\ pose_callback(msg)

\* after the zero command the turtle stays where it is
Stopped ==
    /\ last_branch \in {"corner", "terminal"}
    /\ pose_callback(Get(turtle.pose))

LiveNext == FirstPose \/ StraightMove \/ TurnMove \/ Stopped

\* going straight, the turtle gets at least length_of_side away from the
\* reference pose, and the message that says so is delivered
SideReachedUpdate ==
    /\ last_branch = "straight"
    /\ \E msg \in Pose :
        /\ msg.theta = Get(turtle.pose).theta
        /\ ~side_not_reached(calc_distance(Get(prev_turn_pose), msg))
        /\ pose_callback(msg)

\* turning in place, the turtle gets within turn_direction_th of the target
\* direction, and the message that says so is delivered
HeadingReachedUpdate ==
    /\ last_branch = "turn"
    /\ \E msg \in Pose :
        /\ msg.x = Get(turtle.pose).x
        /\ msg.y = Get(turtle.pose).y
        /\ Abs(calc_target_direction(msg, turn_count) - msg.theta)
             <= param.turn_direction_th
        /\ pose_callback(msg)

\* messages keep arriving (weak fairness of the callback), and a turtle that
\* is commanded again and again to go straight, or to turn, gets there
LiveSpec ==
    /\ Init
    /\ [][LiveNext]_vars
    /\ WF_vars(LiveNext)
    /\ SF_vars(SideReachedUpdate)
    /\ SF_vars(HeadingReachedUpdate)

----------------------------------------------------------------------------
(* _pose_callback statement by statement, for callbacks that are not         *)
(* serialized: each thread runs lines 52-79 one statement per step, reading  *)
(* and writing the shared fields at each.  The histories of the              *)
(* run-to-completion handler (last_branch, distance, segments) are not kept. *)

\* the configurations and messages of the interleaved runs: the default
\* triangle, and poses at the two ends of the x range heading along its sides
ConcParam == {p \in Param : p = [num_of_sides |-> 3, length_of_side |-> 2,
                                 turn_direction_th |-> 1]}
ConcPose == {p \in Pose : p.y = 0 /\ p.x \in {0, MaxX} /\ p.theta \in {-120, 120}}

ConcInit == Init /\ param \in ConcParam

\* thread t moves to line pc with locals cmd_vel and distance
goto(t, pc, cmd_vel, dist) ==
    /\ callbacks' = [callbacks EXCEPT ![t] = [pc |-> pc, cmd_vel |-> cmd_vel,
                                              distance |-> dist]]
    /\ overlapped' = (overlapped \/ \E u \in Threads \ {t} : callbacks[u].pc # "idle")
    /\ UNCHANGED <<param, last_branch, distance, segments>>

\* line 52 (and line 56, the fresh local Twist)
line52(t) ==
    /\ callbacks[t].pc = "idle"
    /\ \E msg \in ConcPose : turtle' = [turtle EXCEPT !.pose = Some(msg)]
    /\ goto(t, "l57", ZeroTwist, None)
    /\ UNCHANGED <<prev_turn_pose, turn_count, cmd_vel_pub>>

\* lines 57-59
line57(t) ==
    /\ callbacks[t].pc = "l57"
    /\ IF ~can_move
       THEN /\ cmd_vel_pub' = publish(<<>>, callbacks[t].cmd_vel)
            /\ goto(t, "idle", ZeroTwist, None)
       ELSE /\ goto(t, "l61", callbacks[t].cmd_vel, None)
            /\ UNCHANGED cmd_vel_pub
    /\ UNCHANGED <<turtle, prev_turn_pose, turn_count>>

\* line 61
line61(t) ==
    /\ callbacks[t].pc = "l61"
    /\ goto(t, IF prev_turn_pose = None THEN "l63" ELSE "l64", callbacks[t].cmd_vel, None)
    /\ UNCHANGED <<turtle, prev_turn_pose, turn_count, cmd_vel_pub>>

\* line 63
line63(t) ==
    /\ callbacks[t].pc = "l63"
    /\ prev_turn_pose' = turtle.pose
    /\ goto(t, "l64", callbacks[t].cmd_vel, None)
    /\ UNCHANGED <<turtle, turn_count, cmd_vel_pub>>

\* line 64; with prev_turn_pose None the read of pose1.x raises and the
\* callback ends there
line64(t) ==
    /\ callbacks[t].pc = "l64"
    /\ IF prev_turn_pose = None
       THEN goto(t, "idle", ZeroTwist, None)
       ELSE goto(t, "l67", callbacks[t].cmd_vel,
                 Some(calc_distance(Get(prev_turn_pose), Get(turtle.pose))))
    /\ UNCHANGED <<turtle, prev_turn_pose, turn_count, cmd_vel_pub>>

\* lines 67-69
line67(t) ==
    /\ callbacks[t].pc = "l67"
    /\ IF side_not_reached(Get(callbacks[t].distance))
       THEN goto(t, "l79", get_cmd_vel_to_go_straight, callbacks[t].distance)
       ELSE goto(t, "l71", callbacks[t].cmd_vel, callbacks[t].distance)
    /\ UNCHANGED <<turtle, prev_turn_pose, turn_count, cmd_vel_pub>>

\* lines 71-74
line71(t) ==
    /\ callbacks[t].pc = "l71"
    /\ IF can_turn(Get(turtle.pose))
       THEN goto(t, "l79", get_cmd_vel_to_turn_in_place, callbacks[t].distance)
       ELSE goto(t, "l76", callbacks[t].cmd_vel, callbacks[t].distance)
    /\ UNCHANGED <<turtle, prev_turn_pose, turn_count, cmd_vel_pub>>

\* line 76
line76(t) ==
    /\ callbacks[t].pc = "l76"
    /\ turn_count' = next_turn_count
    /\ goto(t, "l77", callbacks[t].cmd_vel, callbacks[t].distance)
    /\ UNCHANGED <<turtle, prev_turn_pose, cmd_vel_pub>>

\* line 77
line77(t) ==
    /\ callbacks[t].pc = "l77"
    /\ prev_turn_pose' = None
    /\ goto(t, "l79", callbacks[t].cmd_vel, callbacks[t].distance)
    /\ UNCHANGED <<turtle, turn_count, cmd_vel_pub>>

\* line 79
line79(t) ==
    /\ callbacks[t].pc = "l79"
    /\ cmd_vel_pub' = publish(<<>>, callbacks[t].cmd_vel)
    /\ goto(t, "idle", ZeroTwist, None)
    /\ UNCHANGED <<turtle, prev_turn_pose, turn_count>>

ConcNext ==
    \E t \in Threads :
        \/ line52(t)
        \/ line57(t)
        \/ line61(t)
        \/ line63(t)
        \/ line64(t)
        \/ line67(t)
        \/ line71(t)
        \/ line76(t)
        \/ line77(t)
        \/ line79(t)

ConcSpec == ConcInit /\ [][ConcNext]_vars

----------------------------------------------------------------------------
(* Vocabulary of the properties *)

\* the configuration the design accepts
ValidConfig ==
    /\ param.num_of_sides >= 3
    /\ param.length_of_side > 0
    /\ param.turn_direction_th > 0

\* squared Euclidean distance between two poses
SqDist(p, q) == (p.x - q.x) * (p.x - q.x) + (p.y - q.y) * (p.y - q.y)

\* pose q is at least length_of_side away from pose p
SideReached(p, q) ==
    \/ param.length_of_side <= 0
    \/ SqDist(p, q) >= param.length_of_side * param.length_of_side

\* the pose the latest callback received
LatestPose == Get(turtle.pose)

----------------------------------------------------------------------------
(* Properties *)

\* C1 (terminal stability): from a state with turn_count = num_of_sides,
\* every pose update publishes the zero command and leaves turn_count as it is.
C1_TerminalStability ==
    [][turn_count = param.num_of_sides
         => /\ turn_count' = turn_count
            /\ cmd_vel_pub' = <<ZeroTwist>>]_vars

\* a polygon run that finished and then received one more pose
C1_Witness ==
    /\ ValidConfig
    /\ turn_count = param.num_of_sides
    /\ last_branch = "terminal"
    /\ LatestPose.x > 0

\* C2: under a valid configuration turn_count stays within 0..num_of_sides.
C2_TurnCountRange ==
    ValidConfig => (0 <= turn_count /\ turn_count <= param.num_of_sides)

\* the upper end of the range is reached
C2_Witness ==
    /\ ValidConfig
    /\ turn_count = param.num_of_sides
    /\ last_branch = "corner"

\* C3 (monotonic corners): a pose update leaves turn_count alone or adds
\* exactly one, and it adds one only when it completes a corner: the side
\* length is reached from the reference, the reference is cleared and the
\* zero command goes out.
C3_MonotonicCorners ==
    [][\/ turn_count' = turn_count
       \/ /\ turn_count' = turn_count + 1
          /\ last_branch' = "corner"
          /\ prev_turn_pose' = None
          /\ cmd_vel_pub' = <<ZeroTwist>>
          /\ SideReached(IF prev_turn_pose = None
                         THEN Get(turtle'.pose) ELSE Get(prev_turn_pose),
                         Get(turtle'.pose))]_vars

\* a corner in the middle of the run has just been completed
C3_Witness ==
    /\ ValidConfig
    /\ last_branch = "corner"
    /\ turn_count = 2
    /\ turn_count < param.num_of_sides

\* C4 (segment length trigger): in a non-terminal state an update whose pose
\* is strictly nearer to the reference than length_of_side publishes
\* {velocity, 0}; one at length_of_side or beyond publishes no forward
\* command and is, in that same update, a turn command or a corner completion.
C4_SegmentLengthTrigger ==
    [][turn_count < param.num_of_sides
         => LET msg == Get(turtle'.pose)
                ref == IF prev_turn_pose = None THEN msg ELSE Get(prev_turn_pose)
            IN  IF ~SideReached(ref, msg)
                THEN /\ cmd_vel_pub' = <<Twist(turtle.velocity, 0)>>
                     /\ turn_count' = turn_count
                ELSE /\ cmd_vel_pub' # <<Twist(turtle.velocity, 0)>>
                     /\ \/ /\ cmd_vel_pub' = <<Twist(0, turtle.yawrate)>>
                           /\ turn_count' = turn_count
                           /\ prev_turn_pose' = Some(ref)
                        \/ /\ cmd_vel_pub' = <<ZeroTwist>>
                           /\ turn_count' = turn_count + 1
                           /\ prev_turn_pose' = None]_vars

\* the update whose pose is exactly length_of_side from the reference went
\* to the turn evaluation
C4_Witness ==
    /\ ValidConfig
    /\ last_branch = "turn"
    /\ prev_turn_pose # None
    /\ SqDist(Get(prev_turn_pose), LatestPose)
         = param.length_of_side * param.length_of_side

\* C5 (last-corner exemption): an update that starts with
\* turn_count = num_of_sides - 1 never publishes an angular command, and when
\* its pose has reached the side length it sets turn_count to num_of_sides and
\* publishes the zero command, whatever the heading.
C5_LastCornerExemption ==
    [][turn_count = param.num_of_sides - 1
         => LET msg == Get(turtle'.pose)
                ref == IF prev_turn_pose = None THEN msg ELSE Get(prev_turn_pose)
            IN  /\ \A i \in 1..Len(cmd_vel_pub') : cmd_vel_pub'[i].angular = 0
                /\ SideReached(ref, msg)
                     => /\ turn_count' = param.num_of_sides
                        /\ cmd_vel_pub' = <<ZeroTwist>>]_vars

\* the last corner was completed with the turtle a quarter turn or more off
\* the final target direction 0
C5_Witness ==
    /\ ValidConfig
    /\ last_branch = "corner"
    /\ turn_count = param.num_of_sides
    /\ Abs(LatestPose.theta) >= 90

\* C6 as stated (reference recapture after any corner), under a valid
\* configuration: the update after a corner completion sets prev_turn_pose to
\* its own pose and computes distance 0.
C6_RecaptureAfterAnyCorner ==
    [][ValidConfig /\ last_branch = "corner"
         => /\ prev_turn_pose' = turtle'.pose
            /\ distance' = Some(0)]_vars

\* C6 as amended: after a corner completion that leaves
\* turn_count < num_of_sides the next update computes distance 0 from its own
\* pose and ends with prev_turn_pose equal to that pose, unless it completes
\* another corner itself, which only length_of_side <= 0 allows; after the
\* final corner the next update computes no distance and prev_turn_pose stays
\* None.
C6_RecaptureAfterNonFinalCorner ==
    [][last_branch = "corner"
         => IF turn_count < param.num_of_sides
            THEN /\ distance' = Some(0)
                 /\ \/ prev_turn_pose' = turtle'.pose
                    \/ /\ param.length_of_side <= 0
                       /\ last_branch' = "corner"
                       /\ prev_turn_pose' = None
            ELSE /\ distance' = None
                 /\ prev_turn_pose' = None]_vars

\* the update after a completed corner recaptured the reference away from the
\* origin
C6_Witness ==
    /\ ValidConfig
    /\ turn_count >= 1
    /\ segments = turn_count + 1
    /\ last_branch = "straight"
    /\ distance = Some(0)
    /\ prev_turn_pose = turtle.pose
    /\ LatestPose.x > 0

\* C7: every callback hands exactly one Twist to the publisher, on each of
\* its four paths; before the first callback nothing is published.
C7_ExactlyOnePublish ==
    IF last_branch = "init"
    THEN cmd_vel_pub = <<>>
    ELSE /\ last_branch \in {"terminal", "straight", "turn", "corner"}
         /\ Len(cmd_vel_pub) = 1

\* a corner completion published its one all-zero command
C7_Witness ==
    /\ last_branch = "corner"
    /\ cmd_vel_pub = <<ZeroTwist>>

\* C8 (configuration rejection): under a configuration the design rejects no
\* pose update is processed and no command is published.
C8_InvalidConfigNeverRuns ==
    ~ValidConfig
      => /\ last_branch = "init"
         /\ turtle.pose = None
         /\ cmd_vel_pub = <<>>

\* C9: with a valid configuration, messages that keep arriving and a turtle
\* that obeys the commands, the run reaches turn_count = num_of_sides, and by
\* then exactly num_of_sides reference poses were captured, one per straight
\* segment.
C9_ReachesTerminal ==
    ValidConfig ~> (turn_count = param.num_of_sides /\ segments = param.num_of_sides)

\* the run is over after as many segments as sides, and messages still arrive
C9_Witness ==
    /\ ValidConfig
    /\ turn_count = param.num_of_sides
    /\ segments = param.num_of_sides
    /\ last_branch = "terminal"

\* C10: a published command never has both linear and angular non-zero; it is
\* {velocity, 0}, {0, yawrate} or {0, 0}.
C10_OneAxisPerCommand ==
    \A i \in 1..Len(cmd_vel_pub) :
        /\ cmd_vel_pub[i].linear = 0 \/ cmd_vel_pub[i].angular = 0
        /\ cmd_vel_pub[i] \in {Twist(turtle.velocity, 0), Twist(0, turtle.yawrate), ZeroTwist}

\* a turn-in-place command went out
C10_Witness ==
    /\ last_branch = "turn"
    /\ cmd_vel_pub = <<Twist(0, DefaultYawrate)>>

\* C11: no pose update raises, and each hands the publisher one well-formed
\* Twist, for every num_of_sides drawn, zero and negative included: with
\* num_of_sides <= 0 every update ends at the terminal check, before the
\* division and before the distance, and a distance is only ever computed
\* between two poses.
C11_NeverRaises ==
    /\ last_branch # "raised"
    /\ last_branch # "init"
         => /\ Len(cmd_vel_pub) = 1
            /\ cmd_vel_pub[1] \in [linear : Int, angular : Int]
            /\ turtle.pose # None
    /\ param.num_of_sides <= 0
         => /\ last_branch \in {"init", "terminal"}
            /\ distance = None
            /\ prev_turn_pose = None

\* a pose update was processed with num_of_sides zero or negative
C11_Witness ==
    /\ param.num_of_sides <= 0
    /\ last_branch = "terminal"
    /\ cmd_vel_pub = <<ZeroTwist>>

\* the triangle example: num_of_sides 3, length_of_side 1.0 (2 half-units),
\* turn_direction_th 0.01 rad (the 1 degree threshold drawn), and the poses
\* (0,0,0), (0.5,0,0), (1.0,0,0)
TriangleParam == [num_of_sides |-> 3, length_of_side |-> 2, turn_direction_th |-> 1]
TrianglePose(k) == [x |-> k, y |-> 0, theta |-> 0]

\* C12 (triangle scenario): with the default speeds, from the initial state
\* the pose stream (0,0,0), (0.5,0,0), (1.0,0,0) is answered {0.5,0}, {0.5,0},
\* {0,0.3}, and each of the three updates leaves turn_count 0 and the
\* reference pose (0,0,0).  The handler reads only param, the speeds,
\* prev_turn_pose and turn_count, so the three steps chain into the scenario.
C12_TriangleScenario ==
    [][(/\ param = TriangleParam
        /\ turtle.velocity = DefaultVelocity
        /\ turtle.yawrate = DefaultYawrate)
         => /\ (last_branch = "init" /\ turtle'.pose = Some(TrianglePose(0)))
                 => /\ cmd_vel_pub' = <<Twist(5, 0)>>
                    /\ turn_count' = 0
                    /\ prev_turn_pose' = Some(TrianglePose(0))
            /\ (/\ turn_count = 0
                /\ prev_turn_pose = Some(TrianglePose(0))
                /\ turtle.pose = Some(TrianglePose(0))
                /\ turtle'.pose = Some(TrianglePose(1)))
                 => /\ cmd_vel_pub' = <<Twist(5, 0)>>
                    /\ turn_count' = 0
                    /\ prev_turn_pose' = Some(TrianglePose(0))
            /\ (/\ turn_count = 0
                /\ prev_turn_pose = Some(TrianglePose(0))
                /\ turtle.pose = Some(TrianglePose(1))
                /\ turtle'.pose = Some(TrianglePose(2)))
                 => /\ cmd_vel_pub' = <<Twist(0, 3)>>
                    /\ turn_count' = 0
                    /\ prev_turn_pose' = Some(TrianglePose(0))]_vars

\* the state after the third pose of the scenario
C12_Witness ==
    /\ param = TriangleParam
    /\ turn_count = 0
    /\ segments = 1
    /\ prev_turn_pose = Some(TrianglePose(0))
    /\ turtle.pose = Some(TrianglePose(2))
    /\ last_branch = "turn"
    /\ cmd_vel_pub = <<Twist(0, 3)>>

\* C13 (turn-phase frame): an update that publishes the turn-in-place command
\* leaves turn_count and prev_turn_pose as they were.
C13_TurnLeavesStateUnchanged ==
    [][last_branch' = "turn"
         => /\ cmd_vel_pub' = <<Twist(0, turtle.yawrate)>>
            /\ turn_count' = turn_count
            /\ prev_turn_pose' = prev_turn_pose]_vars

\* the direction of corner turn_count + 1 of a regular polygon, in (-pi, pi]:
\* (turn_count + 1) / num_of_sides of a full turn, less a full turn if above pi
\* (read only with 0 <= turn_count < num_of_sides)
ExpectedTarget ==
    LET t == (2 * Pi * (turn_count + 1)) \div param.num_of_sides
    IN  IF t > Pi THEN t - 2 * Pi ELSE t

\* C14 (corner completion step): an update in a non-terminal state whose pose
\* has reached the side length and whose turn condition is false (heading
\* error <= turn_direction_th, or turn_count = num_of_sides - 1) adds one to
\* turn_count, clears prev_turn_pose and publishes the zero command; every
\* other update leaves turn_count alone and clears no reference pose.
C14_CornerCompletion ==
    [][LET msg == Get(turtle'.pose)
           ref == IF prev_turn_pose = None THEN msg ELSE Get(prev_turn_pose)
           completes ==
               /\ turn_count < param.num_of_sides
               /\ SideReached(ref, msg)
               /\ \/ turn_count = param.num_of_sides - 1
                  \/ Abs(ExpectedTarget - msg.theta) <= param.turn_direction_th
       IN  IF completes
           THEN /\ turn_count' = turn_count + 1
                /\ prev_turn_pose' = None
                /\ cmd_vel_pub' = <<ZeroTwist>>
           ELSE /\ turn_count' = turn_count
                /\ prev_turn_pose' = None
                     => prev_turn_pose = None /\ turn_count >= param.num_of_sides]_vars

\* the first corner of the square was completed with the heading exactly
\* turn_direction_th off the target
C14_Witness ==
    /\ ValidConfig
    /\ param.num_of_sides = 4
    /\ turn_count = 1
    /\ last_branch = "corner"
    /\ LatestPose.theta = 91
    /\ cmd_vel_pub = <<ZeroTwist>>

\* C15: a non-terminal update that finds prev_turn_pose None captures its own
\* pose as the reference and goes on to the go-straight test in the same
\* update: with length_of_side > 0 the distance is 0 and the command
\* published is {velocity, 0}.
C15_CaptureThenStraight ==
    [][(/\ turn_count < param.num_of_sides
        /\ prev_turn_pose = None
        /\ param.length_of_side > 0)
         => /\ prev_turn_pose' = turtle'.pose
            /\ distance' = Some(0)
            /\ cmd_vel_pub' = <<Twist(turtle.velocity, 0)>>
            /\ turn_count' = turn_count]_vars

\* the first update ever captured a pose away from the origin and went
\* straight
C15_Witness ==
    /\ ValidConfig
    /\ turn_count = 0
    /\ segments = 1
    /\ last_branch = "straight"
    /\ distance = Some(0)
    /\ prev_turn_pose = turtle.pose
    /\ LatestPose.x = MaxX
    /\ LatestPose.theta = 90

\* the angle between two directions on the circle, in 0..pi
CircularError(a, b) ==
    LET d == Abs(a - b) % (2 * Pi)
    IN  IF d > Pi THEN 2 * Pi - d ELSE d

\* C16 (heading error on the circle), under a valid configuration: at a
\* non-final corner an update whose pose has reached the side length and
\* whose heading is within turn_direction_th of the target direction modulo
\* 2*pi completes the corner and publishes no turn command.
C16_HeadingErrorOnCircle ==
    [][(/\ ValidConfig
        /\ turn_count < param.num_of_sides - 1
        /\ SideReached(IF prev_turn_pose = None
                       THEN Get(turtle'.pose) ELSE Get(prev_turn_pose),
                       Get(turtle'.pose))
        /\ CircularError(ExpectedTarget, Get(turtle'.pose).theta)
             <= param.turn_direction_th)
         => /\ turn_count' = turn_count + 1
            /\ cmd_vel_pub' = <<ZeroTwist>>]_vars

\* C17: for every side count n >= 3 checked and every turn_count k in
\* 0..n-1 the target direction is above -pi, at most pi, and differs from
\* (2*pi/n)*(k+1) by a whole number of turns; so does the one the controller
\* computes in every non-terminal state of a valid run.
C17_TargetDirectionRange ==
    /\ \A n \in CheckedSides : \A k \in 0..(n - 1) :
          LET t == target_direction(n, k)
          IN  /\ -Pi < t
              /\ t <= Pi
              /\ (t - (2 * Pi * (k + 1)) \div n) % (2 * Pi) = 0
    /\ (ValidConfig /\ turn_count < param.num_of_sides /\ turtle.pose # None)
         => LET t == calc_target_direction(LatestPose, turn_count)
            IN  /\ -Pi < t
                /\ t <= Pi
                /\ (t - (2 * Pi * (turn_count + 1)) \div param.num_of_sides)
                     % (2 * Pi) = 0

\* the square turned at its third corner, whose target 270 degrees was
\* wrapped to -90, after its second corner, whose target pi was kept
C17_Witness ==
    /\ ValidConfig
    /\ param.num_of_sides = 4
    /\ turn_count = 2
    /\ last_branch = "turn"
    /\ calc_target_direction(LatestPose, turn_count) = -90
    /\ target_direction(4, 1) = Pi

\* C18: in every state where the controller can compute it, the target
\* direction is the same for every pose and every turn_count argument passed:
\* it is the direction of the controller's own turn_count and num_of_sides.
C18_TargetIgnoresArguments ==
    (param.num_of_sides >= 1 /\ turn_count < param.num_of_sides)
      => LET t == calc_target_direction(TrianglePose(0), 0)
         IN  /\ t = target_direction(param.num_of_sides, turn_count)
             /\ \A p \in Pose : \A a \in 0..param.num_of_sides :
                    calc_target_direction(p, a) = t

\* the square evaluated the turn at its second corner; another pose and
\* another count passed give the same direction pi
C18_Witness ==
    /\ ValidConfig
    /\ param.num_of_sides = 4
    /\ turn_count = 1
    /\ last_branch = "turn"
    /\ LatestPose.theta = 0
    /\ calc_target_direction([x |-> MaxX, y |-> 2, theta |-> 91], 3) = Pi
    /\ calc_target_direction(LatestPose, turn_count) = Pi

\* C20: once an update has run, prev_turn_pose is None exactly when that
\* update completed a corner or began in the terminal state
\* (turn_count >= num_of_sides); and in the terminal state prev_turn_pose is
\* None and stays None.
C20_ReferenceNoneIff ==
    [][/\ prev_turn_pose' = None
            <=> (turn_count >= param.num_of_sides \/ turn_count' = turn_count + 1)
       /\ turn_count >= param.num_of_sides
            => /\ prev_turn_pose = None
               /\ prev_turn_pose' = None
               /\ turn_count' = turn_count]_vars

\* a finished triangle or square received a further pose and kept no
\* reference
C20_Witness ==
    /\ ValidConfig
    /\ turn_count = param.num_of_sides
    /\ last_branch = "terminal"
    /\ prev_turn_pose = None
    /\ LatestPose.theta = 91
    /\ LatestPose.x = MaxX

\* C19: with callbacks run statement by statement on two threads, turn_count
\* exceeds num_of_sides only in a run where a statement ran while another
\* callback was under way; as long as callbacks have run one after the other
\* turn_count stays within 0..num_of_sides.  (The witness is the state the
\* interleaving reaches.)
C19_OnlyOverlapExceeds ==
    /\ turn_count > param.num_of_sides => overlapped
    /\ ~overlapped => (0 <= turn_count /\ turn_count <= param.num_of_sides)
    /\ turn_count <= param.num_of_sides + 1

\* both callbacks passed the terminal check at turn_count = num_of_sides - 1
\* and both incremented
C19_Witness ==
    /\ ValidConfig
    /\ overlapped
    /\ turn_count = param.num_of_sides + 1
    /\ \A t \in Threads : callbacks[t].pc = "idle"

====
